---------------------------- MODULE Spec2Model ----------------------------
(***************************************************************************)
(* Model of run_nfl_update.py: a one-shot synchronisation of a Google      *)
(* Sheet worksheet into a Firestore collection.                            *)
(*                                                                         *)
(* A run is the __main__ block: authenticate_gspread, initialize_firebase, *)
(* fetch_sheet_data, update_firebase.  The calls to the external services  *)
(* (gspread, firebase_admin, Firestore) either return or raise; which one  *)
(* happens is chosen nondeterministically.  The worksheet content is the   *)
(* grid of cells as get_as_dataframe parses it (typed cells, NaN for an    *)
(* empty cell); the Firestore collection is a mapping from document ID to  *)
(* document body.  The program is run several times against the same       *)
(* collection; between two runs the sheet may lose a row.                  *)
(***************************************************************************)
EXTENDS Integers, Sequences, FiniteSets, TLC

\* ---------------------------------------------------------------- bounds
\* Largest number of data rows of the worksheet (blank rows included).
MaxRows == 2
\* Number of times the program is run against the same collection.
MaxRuns == 2

\* -------------------------------------------------------------- settings
KEY_COLUMN == "pick_id"

\* ---------------------------------------------------------- cell values
\* A cell of the parsed worksheet: NaN (empty), a number or a text.  A
\* column may hold numbers beside texts (an object column of the frame), so
\* the number 1 and the text "1" are different values of one column.
NaN == [k |-> "nan", n |-> 0, s |-> ""]
Num(i) == [k |-> "int", n |-> i, s |-> ""]
Txt(t) == [k |-> "str", n |-> 0, s |-> t]

\* Cells the key column / any other column may hold in the model.
KeyCells == {NaN, Num(1), Txt("1"), Num(12)}
OtherCells == {NaN, Txt("A")}
CellsOf(c) == IF c = KEY_COLUMN THEN KeyCells ELSE OtherCells

\* Header rows of the worksheet (first row, header=0).
Headers == {<<>>, <<"pick_id">>, <<"team">>, <<"pick_id", "team">>}

Range(f) == {f[i] : i \in DOMAIN f}

RowsOf(h) == {r \in [1..Len(h) -> KeyCells \cup OtherCells] :
                 \A i \in 1..Len(h) : r[i] \in CellsOf(h[i])}

GridsOf(h) == UNION {[1..n -> RowsOf(h)] : n \in 0..MaxRows}

Sheets == UNION {{[columns |-> h, rows |-> g] : g \in GridsOf(h)} : h \in Headers}

\* ------------------------------------------------------------ data frame
\* data_df is None, or a frame with ordered columns and rows of cells.
NoneDf == [none |-> TRUE, columns |-> <<>>, rows |-> <<>>]
Frame(cols, rows) == [none |-> FALSE, columns |-> cols, rows |-> rows]

\* pandas isna on one cell.
IsNa(v) == v.k = "nan"

\* Variant: dropna(how='any'), which drops a row with any empty cell.
AnyNa(r) == \E i \in DOMAIN r : IsNa(r[i])

\* A row all of whose cells are NaN (dropna(how='all') drops it).
AllNa(r) == \A i \in DOMAIN r : IsNa(r[i])

\* SelectSeq keeps the order of the rows it keeps.
DropNaAll(rows) == SelectSeq(rows, LAMBDA r : ~AllNa(r))

\* get_as_dataframe(worksheet, header=0) followed by dropna(how='all').
ReadFrame(sh) == Frame(sh.columns, DropNaAll(sh.rows))

\* DataFrame.empty: some axis has length 0.
IsEmpty(df) == Len(df.rows) = 0 \/ Len(df.columns) = 0

\* Variant: the frame is written without fillna.
FillNaOmitted(v) == v

\* fillna(value="") on one cell.
FillNa(v) == IF IsNa(v) THEN Txt("") ELSE v

\* One row of the cleaned frame as a dict column -> value
\* (to_dict('records') of data_df.fillna(value="")).
RecordOf(cols, r) ==
    [c \in Range(cols) |-> FillNa(r[CHOOSE i \in DOMAIN cols : cols[i] = c])]

ToRecords(df) == [i \in DOMAIN df.rows |-> RecordOf(df.columns, df.rows[i])]

\* ------------------------------------------------------------------ str()
Digits == <<"0", "1", "2", "3", "4", "5", "6", "7", "8", "9">>

RECURSIVE NatToStr(_)
NatToStr(n) == IF n < 10 THEN Digits[n + 1]
               ELSE NatToStr(n \div 10) \o Digits[(n % 10) + 1]

\* Python's str() of a cell value.
PyStr(v) == IF v.k = "str" THEN v.s
            ELSE IF v.k = "int" THEN NatToStr(v.n)
            ELSE "nan"

\* doc_id = str(record[KEY_COLUMN])
DocId(record) == PyStr(record[KEY_COLUMN])

\* ------------------------------------------------------------- the store
EmptyStore == [id \in {} |-> [c \in {} |-> NaN]]

\* A collection that already holds documents written by something else.
LegacyStore ==
    [id \in {"1", "9"} |->
        IF id = "1" THEN [c \in {"pick_id", "team", "note"} |->
                             IF c = "pick_id" THEN Txt("1") ELSE Txt("old")]
        ELSE [c \in {"pick_id"} |-> Txt("9")]]

InitialStores == {EmptyStore, LegacyStore}

\* Variant: set(..., merge=True), which keeps the fields the record lacks.
ApplySetMerge(s, op) ==
    [id \in DOMAIN s \cup {op.id} |->
        IF id # op.id THEN s[id]
        ELSE IF id \notin DOMAIN s THEN op.body
        ELSE [c \in DOMAIN s[id] \cup DOMAIN op.body |->
                 IF c \in DOMAIN op.body THEN op.body[c] ELSE s[id][c]]]

\* Variant: a record whose ID is taken is added under a new ID.
ApplySetAccumulating(s, op) ==
    IF op.id \in DOMAIN s
    THEN [id \in DOMAIN s \cup {op.id \o "+"} |->
             IF id = op.id \o "+" THEN op.body ELSE s[id]]
    ELSE [id \in DOMAIN s \cup {op.id} |-> IF id = op.id THEN op.body ELSE s[id]]

\* batch.set(doc_ref, record) applied by the store: the document is created
\* or its body replaced as a whole (set without merge).
ApplySet(s, op) ==
    [id \in DOMAIN s \cup {op.id} |-> IF id = op.id THEN op.body ELSE s[id]]

\* Variant: the first operation on a document wins over the later ones.
RECURSIVE ApplyBatchFirstWins(_, _)
ApplyBatchFirstWins(s, ops) ==
    IF ops = <<>> THEN s
    ELSE LET rest == ApplyBatchFirstWins(s, Tail(ops))
             op == Head(ops)
         IN [id \in DOMAIN rest \cup {op.id} |->
                IF id = op.id THEN op.body ELSE rest[id]]

\* The committed batch: its operations applied in the order they were staged.
RECURSIVE ApplyBatch(_, _)
ApplyBatch(s, ops) ==
    IF ops = <<>> THEN s ELSE ApplyBatch(ApplySet(s, Head(ops)), Tail(ops))

\* ------------------------------------------------------------------ state
VARIABLES
    pc,             \* position of __main__
    run,            \* number of the current run, 1..MaxRuns
    sheet,          \* the worksheet: header and data rows
    gc,             \* result of authenticate_gspread: "client" or "None"
    firebase_ready, \* result of initialize_firebase
    data_df,        \* result of fetch_sheet_data
    wstate,         \* state of the write path (update_firebase)
    records,        \* records of the cleaned frame
    batch,          \* staged set operations
    commits,        \* batch.commit() calls of this run
    sheet_reads,    \* gc.open() calls of this run
    report,         \* last diagnostic printed by update_firebase
    raised,         \* an exception left a function of the program
    store,          \* the Firestore collection
    store0,         \* the collection when this run started
    prev            \* the previous run: whether it ended Done, its table, its store

vars == <<pc, run, sheet, gc, firebase_ready, data_df, wstate, records, batch,
          commits, sheet_reads, report, raised, store, store0, prev>>

NoReport == [kind |-> "none", missing |-> "", found |-> <<>>]
Report(kind) == [kind |-> kind, missing |-> "", found |-> <<>>]
NoPrev == [ok |-> FALSE, df |-> NoneDf, store |-> EmptyStore]

Init ==
    /\ pc = "auth"
    /\ run = 1
    /\ sheet \in Sheets
    /\ gc = "None"
    /\ firebase_ready = FALSE
    /\ data_df = NoneDf
    /\ wstate = "Idle"
    /\ records = <<>>
    /\ batch = <<>>
    /\ commits = 0
    /\ sheet_reads = 0
    /\ report = NoReport
    /\ raised = FALSE
    /\ store \in InitialStores
    /\ store0 = store
    /\ prev = NoPrev

\* ------------------------------------------------------------- exceptions
\* The functions whose calls to the external services sit inside a
\* try ... except Exception block: an exception raised there is caught.
Catches(fn) == fn \in {"authenticate_gspread", "initialize_firebase",
                       "fetch_sheet_data", "update_firebase"}

\* Where __main__ continues after a call of fn failed: on, when the
\* exception was caught, or out of the program.
AfterFailure(fn, next) == IF Catches(fn) THEN next ELSE "crash"

\* ----------------------------------------------------------- authenticator
\* authenticate_gspread: the client, or None when service_account raises.
GspreadResult(ok) == IF ok THEN "client" ELSE "None"

AuthenticateGspread ==
    /\ pc = "auth"
    /\ \E ok \in BOOLEAN :
          /\ gc' = GspreadResult(ok)
          /\ raised' = (~ok /\ ~Catches("authenticate_gspread"))
          /\ pc' = IF ok THEN "init" ELSE AfterFailure("authenticate_gspread", "init")
    /\ UNCHANGED <<run, sheet, firebase_ready, data_df, wstate, records, batch,
                   commits, sheet_reads, report, store, store0, prev>>

\* initialize_firebase: True on success and on an 'already exists' error,
\* False on any other error.
InitOutcomes == {"ok", "already exists", "error"}
FirebaseResult(outcome) == outcome = "ok" \/ outcome = "already exists"

\* Variant: if gc or firebase_ready.
MainGateOr(g, ready) == IF g = "client" \/ ready THEN "fetch" ELSE "exit"

\* if gc and firebase_ready: ... else: print(...)
MainGate(g, ready) == IF g = "client" /\ ready THEN "fetch" ELSE "exit"

InitializeFirebase ==
    /\ pc = "init"
    /\ \E outcome \in InitOutcomes :
          /\ firebase_ready' = FirebaseResult(outcome)
          /\ raised' = (outcome # "ok" /\ ~Catches("initialize_firebase"))
          /\ pc' = IF outcome = "ok"
                   THEN MainGate(gc, TRUE)
                   ELSE AfterFailure("initialize_firebase",
                                     MainGate(gc, FirebaseResult(outcome)))
    /\ UNCHANGED <<run, sheet, gc, data_df, wstate, records, batch, commits,
                   sheet_reads, report, store, store0, prev>>

\* ------------------------------------------------------------ sheet reader
\* fetch_sheet_data: the frame without its all-empty rows, or None when
\* opening or reading the worksheet raises.
FetchResult(ok, sh) == IF ok THEN ReadFrame(sh) ELSE NoneDf

\* gc.open(...) can only return on a client: on None it raises.
CanOpen(g) == g = "client"

\* sheet_data = fetch_sheet_data(gc); update_firebase(sheet_data) is entered.
FetchSheetData ==
    /\ pc = "fetch"
    /\ sheet_reads' = sheet_reads + 1
    /\ \E ok \in {b \in BOOLEAN : b => CanOpen(gc)} :
          /\ data_df' = FetchResult(ok, sheet)
          /\ raised' = (~ok /\ ~Catches("fetch_sheet_data"))
          /\ pc' = IF ok THEN "write" ELSE AfterFailure("fetch_sheet_data", "write")
          /\ wstate' = IF pc' = "write" THEN "Validating" ELSE wstate
    /\ UNCHANGED <<run, sheet, gc, firebase_ready, records, batch, commits,
                   report, store, store0, prev>>

\* ------------------------------------------------------------ store writer
\* Variant: the key column is never looked for.
ValidationNoKeyCheck(df) == IF df.none \/ IsEmpty(df) THEN "skip" ELSE "go"

\* Variant: the key column is looked for before the rows are counted.
ValidationKeyFirst(df) ==
    IF df.none THEN "skip"
    ELSE IF KEY_COLUMN \notin Range(df.columns) THEN "config"
    ELSE IF IsEmpty(df) THEN "skip"
    ELSE "go"

\* The two early returns of update_firebase and the way on.
\*   "skip":   data_df is None or data_df.empty
\*   "config": KEY_COLUMN not in data_df.columns
\*   "go":     the try block is entered
Validation(df) ==
    IF df.none \/ IsEmpty(df) THEN "skip"
    ELSE IF KEY_COLUMN \notin Range(df.columns) THEN "config"
    ELSE "go"

\* The diagnostic of each early return.
ValidationReport(df) ==
    IF Validation(df) = "skip" THEN Report("skip")
    ELSE IF Validation(df) = "config"
         THEN [kind |-> "config", missing |-> KEY_COLUMN, found |-> df.columns]
    ELSE report

Validate ==
    /\ pc = "write"
    /\ wstate = "Validating"
    /\ report' = ValidationReport(data_df)
    /\ wstate' = CASE Validation(data_df) = "skip" -> "Skipped"
                   [] Validation(data_df) = "config" -> "Rejected"
                   [] OTHER -> "Normalizing"
    /\ pc' = IF Validation(data_df) = "go" THEN "write" ELSE "exit"
    /\ UNCHANGED <<run, sheet, gc, firebase_ready, data_df, records, batch,
                   commits, sheet_reads, raised, store, store0, prev>>

\* except Exception as e: print(f"Failed to update Firebase: {e}")
\* The handler only prints: nothing is retried and nothing is undone.
WriteFailed ==
    /\ raised' = ~Catches("update_firebase")
    /\ wstate' = "Failed"
    /\ report' = Report("failed")
    /\ pc' = AfterFailure("update_firebase", "exit")

\* db = firestore.client(); batch = db.batch(); fillna; to_dict('records')
Normalize ==
    /\ pc = "write"
    /\ wstate = "Normalizing"
    /\ \E ok \in BOOLEAN :
          IF ok
          THEN /\ records' = ToRecords(data_df)
               /\ batch' = <<>>
               /\ wstate' = "Staging"
               /\ UNCHANGED <<pc, report, raised>>
          ELSE /\ WriteFailed
               /\ UNCHANGED <<records, batch>>
    /\ UNCHANGED <<run, sheet, gc, firebase_ready, data_df, commits,
                   sheet_reads, store, store0, prev>>

\* The operation batch.set(doc_ref, record) stages for one record.
SetOp(record) == [id |-> DocId(record), body |-> record]

\* record[KEY_COLUMN] raises KeyError on a record without the key column.
HasKey(record) == KEY_COLUMN \in DOMAIN record

\* Variant: batch.commit() indented into the loop.
LoopEndsAfterFirst(staged, total) == staged >= 1

\* for record in records: the loop is left after the last record.
LoopEnds(staged, total) == staged = total

\* One turn of the loop over records; batch.commit() follows the loop.
StageSet ==
    /\ pc = "write"
    /\ wstate = "Staging"
    /\ Len(batch) < Len(records)
    /\ \E ok \in {b \in BOOLEAN : b => HasKey(records[Len(batch) + 1])} :
          IF ok
          THEN /\ batch' = Append(batch, SetOp(records[Len(batch) + 1]))
               /\ wstate' = IF LoopEnds(Len(batch'), Len(records))
                            THEN "Committing" ELSE "Staging"
               /\ UNCHANGED <<pc, report, raised>>
          ELSE /\ WriteFailed
               /\ UNCHANGED batch
    /\ UNCHANGED <<run, sheet, gc, firebase_ready, data_df, records, commits,
                   sheet_reads, store, store0, prev>>

\* Variant: the collection is replaced by the batch's documents.
CommittedMirror(s, ops, outcome) ==
    IF outcome = "error" THEN s ELSE ApplyBatch(EmptyStore, ops)

\* What batch.commit() can do to the collection: apply the whole batch and
\* return; raise without applying it; raise although the store applied it
\* (the answer was lost).  The store applies a batch atomically.
CommitOutcomes == {"ok", "error", "error after apply"}
Committed(s, ops, outcome) == IF outcome = "error" THEN s ELSE ApplyBatch(s, ops)

Commit ==
    /\ pc = "write"
    /\ wstate = "Committing"
    /\ commits' = commits + 1
    /\ \E outcome \in CommitOutcomes :
          /\ store' = Committed(store, batch, outcome)
          /\ IF outcome = "ok"
             THEN /\ wstate' = "Done"
                  /\ report' = Report("complete")
                  /\ pc' = "exit"
                  /\ UNCHANGED raised
             ELSE WriteFailed
    /\ UNCHANGED <<run, sheet, gc, firebase_ready, data_df, records, batch,
                   sheet_reads, store0, prev>>

\* -------------------------------------------------------------- next run
\* The sheet as it is, or with one of its rows removed.
RemoveRow(sh, i) ==
    [columns |-> sh.columns,
     rows |-> SubSeq(sh.rows, 1, i - 1) \o SubSeq(sh.rows, i + 1, Len(sh.rows))]

Edits(sh) == {sh} \cup {RemoveRow(sh, i) : i \in DOMAIN sh.rows}

\* The program is started again: a new process against the same collection.
NextRun ==
    /\ pc \in {"exit", "crash"}
    /\ run < MaxRuns
    /\ run' = run + 1
    /\ sheet' \in Edits(sheet)
    /\ prev' = IF wstate = "Done"
               THEN [ok |-> TRUE, df |-> data_df, store |-> store]
               ELSE NoPrev
    /\ store0' = store
    /\ pc' = "auth"
    /\ gc' = "None"
    /\ firebase_ready' = FALSE
    /\ data_df' = NoneDf
    /\ wstate' = "Idle"
    /\ records' = <<>>
    /\ batch' = <<>>
    /\ commits' = 0
    /\ sheet_reads' = 0
    /\ report' = NoReport
    /\ raised' = FALSE
    /\ UNCHANGED store

Next ==
    \/ AuthenticateGspread
    \/ InitializeFirebase
    \/ FetchSheetData
    \/ Validate
    \/ Normalize
    \/ StageSet
    \/ Commit
    \/ NextRun

Spec == Init /\ [][Next]_vars

\* The program is sequential and every call it makes returns or raises:
\* a step of a run that can be taken is taken.  Starting the program again
\* is up to its user.
FairSpec ==
    /\ Spec
    /\ WF_vars(AuthenticateGspread) /\ WF_vars(InitializeFirebase)
    /\ WF_vars(FetchSheetData) /\ WF_vars(Validate) /\ WF_vars(Normalize)
    /\ WF_vars(StageSet) /\ WF_vars(Commit)

\* =================================================================== claims
\* What the claims say of a table, stated without the writer's operators.

\* The cell of row i of table df in column c.
CellAt(df, i, c) == df.rows[i][CHOOSE j \in DOMAIN df.columns : df.columns[j] = c]

\* An empty cell reads as the empty string, any other cell as itself.
Shown(v) == IF v = NaN THEN Txt("") ELSE v

\* The string form of a shown cell: the digits of a number, the text itself.
StringForm(v) == CASE v = Num(1) -> "1"
                   [] v = Num(12) -> "12"
                   [] OTHER -> v.s

\* The document ID and the document body the spec gives row i of table df.
IdOfRow(df, i) == StringForm(Shown(CellAt(df, i, KEY_COLUMN)))
BodyOfRow(df, i) == [c \in Range(df.columns) |-> Shown(CellAt(df, i, c))]
IdsOf(df) == IF KEY_COLUMN \in Range(df.columns)
             THEN {IdOfRow(df, i) : i \in DOMAIN df.rows}
             ELSE {}

DistinctKeyValues(df) ==
    \A i, j \in DOMAIN df.rows :
        i # j => CellAt(df, i, KEY_COLUMN) # CellAt(df, j, KEY_COLUMN)

DistinctKeyStrings(df) ==
    \A i, j \in DOMAIN df.rows : i # j => IdOfRow(df, i) # IdOfRow(df, j)

\* The collection holds one document per row of df and no other.
Reproduces(df) ==
    /\ DOMAIN store = IdsOf(df)
    /\ Cardinality(DOMAIN store) = Len(df.rows)
    /\ \A i \in DOMAIN df.rows : store[IdOfRow(df, i)] = BodyOfRow(df, i)

\* C1 as stated: a successful run on an initially empty collection, on a
\* table whose key-column values are pairwise distinct, leaves exactly one
\* document per row, with the row's string-form key as ID and the row's
\* columns as fields, empty cells being the empty string.
C1_AsStated ==
    (wstate = "Done" /\ store0 = EmptyStore /\ DistinctKeyValues(data_df))
        => Reproduces(data_df)

\* C1 amended: the same, for a table whose key-column values have pairwise
\* distinct string forms (after empty cells are read as the empty string).
C1_Reproduces ==
    (wstate = "Done" /\ store0 = EmptyStore /\ DistinctKeyStrings(data_df))
        => Reproduces(data_df)

\* A successful run on an empty collection wrote two rows, one with an empty
\* non-key cell.
C1_Witness ==
    /\ wstate = "Done"
    /\ store0 = EmptyStore
    /\ DistinctKeyStrings(data_df)
    /\ Len(data_df.rows) >= 2
    /\ \E i \in DOMAIN data_df.rows : \E j \in DOMAIN data_df.columns :
          data_df.columns[j] # KEY_COLUMN /\ data_df.rows[i][j] = NaN

\* C2: a successful run on the table of the previous successful run leaves
\* the collection as the previous run left it: no document added, no field
\* changed.
C2_Idempotent ==
    (wstate = "Done" /\ prev.ok /\ prev.df = data_df) => store = prev.store

\* Two successful runs in succession on the same table, the first of which
\* changed the collection.
C2_Witness ==
    /\ wstate = "Done"
    /\ prev.ok
    /\ prev.df = data_df
    /\ prev.store # LegacyStore
    /\ prev.store # EmptyStore
    /\ Len(data_df.rows) >= 2

\* The writer has returned from, or gone past, its validation in this run.
Validated == wstate \notin {"Idle", "Validating"}

\* C3: on a table with rows and without the key column the writer stages
\* nothing, commits nothing, leaves the collection as it was and reports a
\* configuration failure naming the key column and listing the columns.
C3_KeyColumnAbsent ==
    (/\ Validated
     /\ ~data_df.none
     /\ Len(data_df.rows) > 0
     /\ KEY_COLUMN \notin Range(data_df.columns))
        => /\ wstate = "Rejected"
           /\ pc = "exit"
           /\ batch = <<>>
           /\ commits = 0
           /\ store = store0
           /\ report = [kind |-> "config", missing |-> "pick_id",
                        found |-> data_df.columns]

C3_Witness ==
    /\ wstate = "Rejected"
    /\ Len(data_df.rows) > 0
    /\ data_df.columns = <<"team">>
    /\ report.found = <<"team">>
    /\ store = LegacyStore

\* C4: on an absent table or one without rows the writer stages nothing,
\* commits nothing, leaves the collection as it was and reports no error,
\* whether or not the key column is present.
C4_EmptyTable ==
    (Validated /\ (data_df.none \/ Len(data_df.rows) = 0))
        => /\ wstate = "Skipped"
           /\ pc = "exit"
           /\ batch = <<>>
           /\ commits = 0
           /\ store = store0
           /\ report.kind = "skip"
           /\ ~raised

\* The writer skipped a table that was read, has no rows and lacks the key
\* column, from a sheet that had blank rows only.
C4_Witness ==
    /\ wstate = "Skipped"
    /\ ~data_df.none
    /\ data_df.columns = <<"team">>
    /\ Len(sheet.rows) > 0
    /\ store = LegacyStore

\* The strictly increasing maps from the rows of the table into the rows of
\* the sheet.
Embeddings(n, m) == {f \in [1..n -> 1..m] : \A i, j \in 1..n : i < j => f[i] < f[j]}

SomeCellFilled(r) == \E i \in DOMAIN r : r[i] # NaN

\* C5: the table the reader returns holds, in their order, exactly the rows
\* of the sheet that have a non-empty cell, and no staged document comes
\* from a row without one.
C5_DropsEmptyRows ==
    (sheet_reads > 0 /\ ~data_df.none)
        => /\ data_df.columns = sheet.columns
           /\ \E f \in Embeddings(Len(data_df.rows), Len(sheet.rows)) :
                 /\ \A i \in DOMAIN data_df.rows : data_df.rows[i] = sheet.rows[f[i]]
                 /\ \A j \in DOMAIN sheet.rows :
                       SomeCellFilled(sheet.rows[j]) <=> (\E i \in DOMAIN f : f[i] = j)
           /\ \A k \in DOMAIN batch :
                 \E c \in DOMAIN batch[k].body : batch[k].body[c] # Txt("")

\* A sheet with a blank row before its last, filled row was read and staged.
C5_Witness ==
    /\ wstate = "Committing"
    /\ Len(sheet.rows) > Len(data_df.rows)
    /\ Len(batch) >= 1
    /\ SomeCellFilled(sheet.rows[Len(sheet.rows)])
    /\ \E j \in DOMAIN sheet.rows : ~SomeCellFilled(sheet.rows[j])

\* The three stage failures of a run.
AuthFailed == pc # "auth" /\ gc = "None"
FirebaseFailed == pc \notin {"auth", "init"} /\ ~firebase_ready
SheetReadFailed == sheet_reads > 0 /\ data_df.none

\* After a stage failure nothing is staged or committed, the collection is
\* as it was, no exception has left the program and the run is at its end
\* or on the writer's no-op return; the sheet is read only after both
\* authentications succeeded.
StageFailureSafe ==
    /\ (AuthFailed \/ FirebaseFailed \/ SheetReadFailed)
          => /\ batch = <<>>
             /\ commits = 0
             /\ store = store0
             /\ ~raised
             /\ pc \in {"init", "write", "exit"}
             /\ wstate \in {"Idle", "Validating", "Skipped"}
             /\ (AuthFailed \/ FirebaseFailed) => sheet_reads = 0
    /\ (pc = "fetch" \/ sheet_reads > 0) => (gc = "client" /\ firebase_ready)

\* C6: after a failed Sheets authentication, a failed Firebase
\* initialization or a failed sheet read, nothing is staged, nothing is
\* committed, the collection stays as it was, no exception leaves the
\* program and the run comes to its end; the sheet is read only after both
\* authentications succeeded.
C6_StageFailureStops ==
    /\ []StageFailureSafe
    /\ (AuthFailed \/ FirebaseFailed \/ SheetReadFailed) ~> (pc = "exit")

\* A run ended after its sheet read failed against a collection with
\* documents.
C6_Witness ==
    /\ SheetReadFailed
    /\ pc = "exit"
    /\ store = LegacyStore

\* C7: after a successful run the document of every row has exactly the
\* table's columns as fields, each with the value of a row of that ID, empty
\* cells as the empty string: no other field and no earlier value is left.
C7_FullOverwrite ==
    wstate = "Done"
        => \A i \in DOMAIN data_df.rows :
              /\ IdOfRow(data_df, i) \in DOMAIN store
              /\ DOMAIN store[IdOfRow(data_df, i)] = Range(data_df.columns)
              /\ \E j \in DOMAIN data_df.rows :
                    /\ IdOfRow(data_df, j) = IdOfRow(data_df, i)
                    /\ store[IdOfRow(data_df, i)] = BodyOfRow(data_df, j)

\* A successful run overwrote a document that had a field the table lacks
\* and a value where the row has an empty cell.
C7_Witness ==
    /\ wstate = "Done"
    /\ store0 = LegacyStore
    /\ data_df.columns = <<"pick_id", "team">>
    /\ \E i \in DOMAIN data_df.rows :
          /\ IdOfRow(data_df, i) = "1"
          /\ CellAt(data_df, i, "team") = NaN
    /\ "note" \in DOMAIN store0["1"]
    /\ store0["1"]["team"] = Txt("old")

\* The last row of the table with the ID of row i.
LastWithId(df, i) ==
    CHOOSE j \in DOMAIN df.rows :
        /\ IdOfRow(df, j) = IdOfRow(df, i)
        /\ \A k \in DOMAIN df.rows : IdOfRow(df, k) = IdOfRow(df, i) => k <= j

HasDuplicateIds(df) ==
    \E i, j \in DOMAIN df.rows : i < j /\ IdOfRow(df, i) = IdOfRow(df, j)

\* C8: after a successful run on a table in which rows share the string
\* form of their key, the document of that ID is the record of the last of
\* these rows.
C8_LastDuplicateWins ==
    (wstate = "Done" /\ HasDuplicateIds(data_df))
        => \A i \in DOMAIN data_df.rows :
              /\ IdOfRow(data_df, i) \in DOMAIN store
              /\ store[IdOfRow(data_df, i)] =
                    BodyOfRow(data_df, LastWithId(data_df, i))

\* A run succeeded on two rows of the same ID and different bodies.
C8_Witness ==
    /\ wstate = "Done"
    /\ \E i, j \in DOMAIN data_df.rows :
          /\ i < j
          /\ IdOfRow(data_df, i) = IdOfRow(data_df, j)
          /\ BodyOfRow(data_df, i) # BodyOfRow(data_df, j)

\* The steps the write path may take within a run.
WriteSteps ==
    {<<"Idle", "Validating">>,
     <<"Validating", "Skipped">>, <<"Validating", "Rejected">>,
     <<"Validating", "Normalizing">>,
     <<"Normalizing", "Staging">>, <<"Normalizing", "Failed">>,
     <<"Staging", "Staging">>, <<"Staging", "Committing">>, <<"Staging", "Failed">>,
     <<"Committing", "Done">>, <<"Committing", "Failed">>}

\* Within a run the write path takes the steps of its state machine only; a
\* commit is issued at most once and only with one set operation staged per
\* row; the collection changes in no state before Committing; and after
\* Done or Failed nothing is committed, staged or undone.
WritePathSteps ==
    [][run' = run =>
         /\ (wstate' # wstate \/ batch' # batch) => <<wstate, wstate'>> \in WriteSteps
         /\ commits' # commits
               => /\ wstate = "Committing"
                  /\ commits = 0
                  /\ commits' = 1
                  /\ Len(batch) = Len(data_df.rows)
                  /\ wstate' \in {"Done", "Failed"}
         /\ store' # store => (wstate = "Committing" /\ commits' # commits)
         /\ wstate \in {"Done", "Failed"}
               => /\ pc \in {"exit", "crash"}
                  /\ UNCHANGED <<wstate, store, batch, commits>>
         /\ wstate' = "Failed" => wstate \in {"Normalizing", "Staging", "Committing", "Failed"}
      ]_vars

\* A run that passed validation ends in Done or Failed.
WritePathEnds == (wstate = "Normalizing") ~> (wstate \in {"Done", "Failed"})

\* C9: the write path goes Idle, Validating, Normalizing, Staging,
\* Committing and ends in Done or Failed, with at most one commit, issued
\* only after a set operation was staged for every row, no change of the
\* collection before Committing, and no retry, rollback or second commit
\* after a failure.
C9_WritePath == WritePathSteps /\ WritePathEnds

\* A run failed at its commit, after staging two rows.
C9_Witness ==
    /\ wstate = "Failed"
    /\ commits = 1
    /\ Len(batch) = 2
    /\ pc = "exit"

\* C10: no step removes a document or changes a document whose ID is not
\* the string form of a key value of the current table; a document the
\* previous run wrote for a row that is no longer in the sheet is still
\* there with the body that run left.
C10_Frame ==
    /\ [][\A id \in DOMAIN store :
             /\ id \in DOMAIN store'
             /\ id \notin IdsOf(data_df) => store'[id] = store[id]]_vars
    /\ [](prev.ok =>
             \A id \in DOMAIN prev.store :
                 /\ id \in DOMAIN store
                 /\ id \notin IdsOf(sheet) => store[id] = prev.store[id])

\* The second run succeeded on a sheet from which a row had been removed,
\* whose document the first run had written.
C10_Witness ==
    /\ wstate = "Done"
    /\ prev.ok
    /\ Len(sheet.rows) < Len(prev.df.rows)
    /\ \E id \in IdsOf(prev.df) :
          /\ id \notin IdsOf(data_df)
          /\ id \notin DOMAIN LegacyStore
          /\ id \in DOMAIN store
          /\ store[id] = prev.store[id]
=============================================================================
